---- MODULE Spec2Model ----
(***************************************************************************)
(* RegionAllocator (src/src/runtime/internal/region_allocator.h): one      *)
(* block sub-allocated into a linked list of block regions, driven by the  *)
(* callbacks of test/runtime/block_allocator.cpp.                          *)
(*                                                                         *)
(* Region nodes live in an arena of NodeIds; NULL is the null pointer.     *)
(* Every private method of the class is an operator from a heap record     *)
(*   [nodes, reserved, mem, allocs, deallocs, ret, aborted]                *)
(* to the heap after the call: nodes are the arena entries, reserved is    *)
(* block->reserved, mem is the test's allocated_region_memory, allocs and  *)
(* deallocs log the sizes handed to the region callbacks during the call,  *)
(* ret is the method's return value.                                       *)
(*                                                                         *)
(* The global WebGPU context (src/src/runtime/webgpu.cpp) is modelled next *)
(* to it: the spin lock, the global device, init_error_code and the        *)
(* threads that acquire and release the context.                           *)
(*                                                                         *)
(* The context keys of src/src/runtime/tls_halide_context.cpp are the      *)
(* table keys_in_use and the thread-local tls_context_info.values; every   *)
(* function holds key_table_mutex for its whole body, so each call is one  *)
(* step.                                                                   *)
(*                                                                         *)
(* ErrorScope and halide_webgpu_device_sync (webgpu.cpp) are modelled with *)
(* the callbacks the device delivers: a callback registered by a call is   *)
(* pending until a step of the device fires it.                            *)
(***************************************************************************)
EXTENDS Integers, Sequences, FiniteSets, TLC

VARIABLES
    nodes,                    \* arena entries: NodeIds -> BlockRegion
    block,                    \* the BlockResource the allocator manages
    allocated_region_memory,  \* the test's counter of backend region bytes
    refs,                     \* references the caller holds on each region pointer
    alloc_fails,              \* whether the region-allocate callback may fail
    last,                     \* the public call that produced this state
    context_lock,             \* webgpu.cpp: spin lock of the global WebGPU context
    global_device,            \* webgpu.cpp: the global WGPUDevice, or NULL
    init_error_code,          \* webgpu.cpp: result of the context creation callbacks
    threads,                  \* each thread's position and its context object
    keys_in_use,              \* tls_halide_context.cpp: the table of context keys
    tls_values,               \* tls_context_info.values of each thread
    issued,                   \* keys returned by allocate_key and not freed since
    tls_last,                 \* the context-key call that produced this state
    scope,                    \* webgpu.cpp: an ErrorScope object and its callbacks
    sync                      \* the frame of a halide_webgpu_device_sync call

alloc_vars == <<nodes, block, allocated_region_memory, refs, alloc_fails, last>>

wgpu_vars == <<context_lock, global_device, init_error_code, threads>>

tls_vars == <<keys_in_use, tls_values, issued, tls_last>>

sync_vars == <<scope, sync>>

vars == <<nodes, block, allocated_region_memory, refs, alloc_fails, last,
          context_lock, global_device, init_error_code, threads,
          keys_in_use, tls_values, issued, tls_last, scope, sync>>

----------------------------------------------------------------------------
(* Bounds *)

BlockSize == 4     \* block->memory.size
MaxNodes == 3      \* arena entries available for block regions
MaxRefs == 2       \* largest number of references the caller holds on one region
MaxThreads == 3    \* threads that use the WebGPU context
halide_context_key_count == 2    \* slots of the context key table
MaxWaits == 2      \* calls of wait() on one ErrorScope
MaxCalls == 2      \* calls of halide_webgpu_device_sync

NULL == 0
NodeIds == 1..MaxNodes

\* Addresses of BlockResources: the allocator's own block and another one.
ThisBlock == 1
OtherBlock == 2

----------------------------------------------------------------------------
(* Shared types (internal/memory_resources.h) *)

RECURSIVE RoundUpPow2From(_, _)
RoundUpPow2From(p, n) == IF p >= n THEN p ELSE RoundUpPow2From(2 * p, n)

IsPow2(n) == n >= 1 /\ RoundUpPow2From(1, n) = n

Max(a, b) == IF a > b THEN a ELSE b

round_up(o, a) == ((o + a - 1) \div a) * a

conform_alignment(requested, required) ==
    RoundUpPow2From(1, Max(requested, required))

aligned_offset(o, a) == round_up(o, a)

aligned_size(o, s, a) == round_up(o + s, a) - o

\* MemoryProperties axes: 0 is the Default sentinel of each enum.
DefaultProperties == [visibility |-> 0, caching |-> 0, usage |-> 0]
CachedProperties == [visibility |-> 0, caching |-> 1, usage |-> 0]
UncachedProperties == [visibility |-> 0, caching |-> 2, usage |-> 0]

BlockProperties == {CachedProperties}
RequestProperties == {DefaultProperties, UncachedProperties}
BlockAlignments == {2}
RequestSizes == {1, 2}
Alignments == {1, 4}

Requests ==
    [size : RequestSizes, alignment : Alignments, properties : RequestProperties]

\* An arena entry that holds no region (zeroed).
NoRegion ==
    [live |-> FALSE, handle |-> NULL, offset |-> 0, size |-> 0,
     properties |-> DefaultProperties, dedicated |-> FALSE,
     status |-> "Available", usage_count |-> 0, block_ptr |-> NULL,
     prev_ptr |-> NULL, next_ptr |-> NULL, alloc_size |-> 0]

\* A region pointer handed in by mistake: a BlockRegion that lives in the
\* arena of the allocator of another block.
Foreign == MaxNodes + 1

ForeignRegion ==
    [NoRegion EXCEPT !.live = TRUE, !.handle = 1, !.size = 1, !.alloc_size = 1,
                     !.status = "InUse", !.usage_count = 1,
                     !.block_ptr = OtherBlock]

----------------------------------------------------------------------------
(* Region callbacks of the test *)

\* allocate_region: sets the handle and counts region->size.  ok = FALSE is a
\* backend that returns an error and leaves the handle null.
allocate_region(h, r, ok) ==
    IF ok
    THEN [h EXCEPT !.nodes[r].handle = 1,
                   !.nodes[r].alloc_size = h.nodes[r].size,
                   !.mem = @ + h.nodes[r].size,
                   !.allocs = Append(@, <<r, h.nodes[r].size>>)]
    ELSE [h EXCEPT !.allocs = Append(@, <<r, h.nodes[r].size>>)]

deallocate_region(h, r) ==
    [h EXCEPT !.nodes[r].handle = NULL,
              !.nodes[r].alloc_size = 0,
              !.mem = @ - h.nodes[r].size,
              !.deallocs = Append(@, <<r, h.nodes[r].size, h.nodes[r].alloc_size>>)]

----------------------------------------------------------------------------
(* Private methods of RegionAllocator *)

is_available(h, r) ==
    IF r = NULL THEN FALSE
    ELSE IF h.nodes[r].usage_count > 0 THEN FALSE
    ELSE IF h.nodes[r].status # "Available" THEN FALSE
    ELSE TRUE

can_coalesce(h, r) ==
    IF ~is_available(h, r) THEN FALSE
    ELSE IF is_available(h, h.nodes[r].prev_ptr) THEN TRUE
    ELSE IF is_available(h, h.nodes[r].next_ptr) THEN TRUE
    ELSE FALSE

can_split(h, r, size) ==
    r # NULL /\ h.nodes[r].size > size /\ h.nodes[r].usage_count = 0

is_compatible_always(h, r, properties) == TRUE

is_compatible_block_region(h, r, properties) ==
    IF properties.caching # 0 /\ properties.caching # h.nodes[r].properties.caching
    THEN FALSE
    ELSE IF properties.visibility # 0
            /\ properties.visibility # h.nodes[r].properties.visibility
    THEN FALSE
    ELSE IF properties.usage # 0 /\ properties.usage # h.nodes[r].properties.usage
    THEN FALSE
    ELSE TRUE

\* MemoryArena::reserve(zero-initialised): an entry that holds no region.
arena_reserve(h) ==
    IF \E n \in NodeIds : ~h.nodes[n].live
    THEN CHOOSE n \in NodeIds :
            ~h.nodes[n].live /\ \A m \in NodeIds : ~h.nodes[m].live => n <= m
    ELSE NULL

arena_reclaim(h, r) == [h EXCEPT !.nodes[r] = NoRegion]

create_block_region(h, properties, offset, size, dedicated) ==
    LET r == arena_reserve(h) IN
    IF r = NULL THEN [h EXCEPT !.ret = NULL]
    ELSE [h EXCEPT !.nodes[r] =
                      [NoRegion EXCEPT !.live = TRUE, !.handle = NULL,
                                       !.offset = offset, !.size = size,
                                       !.properties = properties,
                                       !.dedicated = dedicated,
                                       !.status = "Available",
                                       !.block_ptr = ThisBlock,
                                       !.usage_count = 0],
                   !.ret = r]

release_block_region_keeps(h, r) ==
    IF r = NULL THEN h
    ELSE IF h.nodes[r].usage_count > 0 THEN h
    ELSE [h EXCEPT !.nodes[r].status = "Available"]

release_block_region_always(h, r) ==
    IF r = NULL THEN h
    ELSE IF h.nodes[r].usage_count > 0 THEN h
    ELSE [h EXCEPT !.reserved = @ - h.nodes[r].size,
                   !.nodes[r].status = "Available"]

release_block_region(h, r) ==
    IF r = NULL THEN h
    ELSE IF h.nodes[r].usage_count > 0 THEN h
    ELSE [h EXCEPT !.reserved = IF h.nodes[r].status # "Available"
                                 THEN @ - h.nodes[r].size ELSE @,
                   !.nodes[r].status = "Available"]

free_block_region(h, r) ==
    LET reset(h1) ==
            [h1 EXCEPT !.nodes[r].usage_count = 0, !.nodes[r].status = "Available"]
    IN reset(IF h.nodes[r].usage_count = 0 /\ h.nodes[r].handle # NULL
             THEN [deallocate_region(h, r) EXCEPT !.nodes[r].size = 0,
                                                  !.nodes[r].offset = 0,
                                                  !.nodes[r].handle = NULL]
             ELSE h)

destroy_block_region(h, r) ==
    arena_reclaim(free_block_region([h EXCEPT !.nodes[r].usage_count = 0], r), r)

alloc_block_region_always(h, r, ok) ==
    LET mark(h1) ==
            [h1 EXCEPT !.nodes[r].status = IF h1.nodes[r].dedicated
                                           THEN "Dedicated" ELSE "InUse",
                       !.reserved = @ + h1.nodes[r].size]
    IN  IF h.nodes[r].status # "Available" THEN [h EXCEPT !.aborted = TRUE]
        ELSE mark(allocate_region(h, r, ok))

alloc_block_region(h, r, ok) ==
    LET mark(h1) ==
            [h1 EXCEPT !.nodes[r].status = IF h1.nodes[r].dedicated
                                           THEN "Dedicated" ELSE "InUse",
                       !.reserved = @ + h1.nodes[r].size]
    IN  IF h.nodes[r].status # "Available" THEN [h EXCEPT !.aborted = TRUE]
        ELSE mark(IF h.nodes[r].handle = NULL THEN allocate_region(h, r, ok) ELSE h)

RECURSIVE find_from(_, _, _)
find_from(h, r, request) ==
    IF r = NULL THEN NULL
    ELSE IF ~is_available(h, r) THEN find_from(h, h.nodes[r].next_ptr, request)
    ELSE IF ~is_compatible_block_region(h, r, request.properties)
    THEN find_from(h, h.nodes[r].next_ptr, request)
    ELSE IF request.size > h.nodes[r].size
    THEN find_from(h, h.nodes[r].next_ptr, request)
    ELSE
    LET actual_alignment == conform_alignment(request.alignment, block.alignment)
        actual_size == aligned_size(h.nodes[r].offset, request.size, actual_alignment)
    IN  IF actual_size > h.nodes[r].size
        THEN find_from(h, h.nodes[r].next_ptr, request)
        ELSE IF actual_size + h.reserved <= block.size
        THEN r
        ELSE find_from(h, h.nodes[r].next_ptr, request)

find_block_region_after_head(h, request) ==
    find_from(h, h.nodes[block.regions].next_ptr, request)

find_block_region(h, request) == find_from(h, block.regions, request)

split_block_region_unaligned(h, r, size, req_alignment) ==
    LET alignment == conform_alignment(req_alignment, block.alignment)
        link(h2, next_region) ==
            IF h2.ret = NULL THEN [h2 EXCEPT !.aborted = TRUE]
            ELSE [(IF next_region # NULL
                   THEN [h2 EXCEPT !.nodes[next_region].prev_ptr = h2.ret]
                   ELSE h2)
                    EXCEPT !.nodes[h2.ret].next_ptr = next_region,
                           !.nodes[r].next_ptr = h2.ret,
                           !.nodes[r].size = size]
        create(h1) ==
            link(create_block_region(
                     h1, h1.nodes[r].properties,
                     h1.nodes[r].offset + size,
                     h1.nodes[r].size
                       - aligned_size(h1.nodes[r].offset, size, alignment),
                     h1.nodes[r].dedicated),
                 h1.nodes[r].next_ptr)
    IN create(IF h.nodes[r].usage_count = 0 /\ h.nodes[r].handle # NULL
              THEN deallocate_region(h, r)
              ELSE h)

split_block_region_leaks(h, r, size, req_alignment) ==
    LET alignment == conform_alignment(req_alignment, block.alignment)
        link(h2, next_region) ==
            IF h2.ret = NULL THEN [h2 EXCEPT !.aborted = TRUE]
            ELSE [(IF next_region # NULL
                   THEN [h2 EXCEPT !.nodes[next_region].prev_ptr = h2.ret]
                   ELSE h2)
                    EXCEPT !.nodes[h2.ret].next_ptr = next_region,
                           !.nodes[r].next_ptr = h2.ret,
                           !.nodes[r].size = size]
    IN link(create_block_region(
                h, h.nodes[r].properties,
                aligned_offset(h.nodes[r].offset + size, alignment),
                h.nodes[r].size - aligned_size(h.nodes[r].offset, size, alignment),
                h.nodes[r].dedicated),
            h.nodes[r].next_ptr)

split_block_region(h, r, size, req_alignment) ==
    LET alignment == conform_alignment(req_alignment, block.alignment)
        \* empty_region->next_ptr = next_region
        set_next(h2, next_region) ==
            [h2 EXCEPT !.nodes[h2.ret].next_ptr = next_region]
        \* if (next_region) next_region->prev_ptr = empty_region
        set_prev(h3, next_region) ==
            IF next_region # NULL
            THEN [h3 EXCEPT !.nodes[next_region].prev_ptr = h3.ret]
            ELSE h3
        \* block_region->next_ptr = empty_region; block_region->memory.size = size
        shrink(h4) ==
            [h4 EXCEPT !.nodes[r].next_ptr = h4.ret, !.nodes[r].size = size]
        link(h2, next_region) ==
            IF h2.ret = NULL THEN [h2 EXCEPT !.aborted = TRUE]
            ELSE shrink(set_prev(set_next(h2, next_region), next_region))
        \* adjusted_size, adjusted_offset, empty_size and the new region
        create(h1) ==
            link(create_block_region(
                     h1, h1.nodes[r].properties,
                     aligned_offset(h1.nodes[r].offset + size, alignment),
                     h1.nodes[r].size
                       - aligned_size(h1.nodes[r].offset, size, alignment),
                     h1.nodes[r].dedicated),
                 h1.nodes[r].next_ptr)
    IN create(IF h.nodes[r].usage_count = 0 /\ h.nodes[r].handle # NULL
              THEN deallocate_region(h, r)
              ELSE h)

coalesce_block_regions(h, r) ==
    LET \* prev_region takes over block_region's successor and size
        into_prev(h1, prev_region, next_region) ==
            [(IF next_region # NULL
              THEN [h1 EXCEPT !.nodes[next_region].prev_ptr = prev_region]
              ELSE h1)
               EXCEPT !.nodes[prev_region].next_ptr = next_region,
                      !.nodes[prev_region].size = @ + h1.nodes[r].size]
        merge_prev(h1, prev_region) ==
            IF is_available(h1, prev_region)
            THEN [destroy_block_region(
                      into_prev(h1, prev_region, h1.nodes[r].next_ptr), r)
                    EXCEPT !.ret = prev_region]
            ELSE [h1 EXCEPT !.ret = r]
        \* block_region takes over next_region's successor and size
        from_next(h2, cur, next_region) ==
            [(IF h2.nodes[next_region].next_ptr # NULL
              THEN [h2 EXCEPT !.nodes[h2.nodes[next_region].next_ptr].prev_ptr = cur]
              ELSE h2)
               EXCEPT !.nodes[cur].next_ptr = h2.nodes[next_region].next_ptr,
                      !.nodes[cur].size = @ + h2.nodes[next_region].size]
        merge_next(h2) ==
            IF is_available(h2, h2.nodes[h2.ret].next_ptr)
            THEN [destroy_block_region(
                      from_next(h2, h2.ret, h2.nodes[h2.ret].next_ptr),
                      h2.nodes[h2.ret].next_ptr)
                    EXCEPT !.ret = h2.ret]
            ELSE h2
    IN merge_next(merge_prev(IF h.nodes[r].usage_count = 0 /\ h.nodes[r].handle # NULL
                             THEN deallocate_region(h, r)
                             ELSE h,
                             h.nodes[r].prev_ptr))

RECURSIVE collect_from(_, _, _)
collect_from(h, r, result) ==
    LET continue(h1) == collect_from(h1, h1.nodes[h1.ret].next_ptr, TRUE)
    IN  IF r = NULL THEN [h EXCEPT !.ret = result]
        ELSE IF can_coalesce(h, r) THEN continue(coalesce_block_regions(h, r))
        ELSE collect_from(h, h.nodes[r].next_ptr, result)

RECURSIVE release_from(_, _)
release_from(h, r) ==
    IF r = NULL THEN h
    ELSE release_from(release_block_region(h, r), h.nodes[r].next_ptr)

RECURSIVE destroy_from(_, _)
destroy_from(h, r) ==
    IF r = NULL THEN h
    ELSE destroy_from(destroy_block_region(h, r), h.nodes[r].next_ptr)

----------------------------------------------------------------------------
(* Public interface *)

Heap ==
    [nodes |-> nodes, reserved |-> block.reserved, mem |-> allocated_region_memory,
     allocs |-> <<>>, deallocs |-> <<>>, ret |-> NULL, aborted |-> FALSE]

\* The caller's pointers: a pointer whose region was destroyed is dropped.
held(h, r) == IF h.nodes[r].live THEN refs[r] ELSE 0

\* The arena entries of the region list, in list order.
RECURSIVE list_from(_, _)
list_from(ns, r) ==
    IF r = NULL THEN <<>> ELSE <<r>> \o list_from(ns, ns[r].next_ptr)

\* Arena addresses carry no meaning: the state kept between two public calls
\* names the entries by their position in the region list (the head is entry
\* 1), and gives a pointer to an entry outside the list the name DANGLING.
DANGLING == -1

renamed(order, p) ==
    IF p = NULL THEN NULL
    ELSE IF \E i \in 1..Len(order) : order[i] = p
    THEN CHOOSE i \in 1..Len(order) : order[i] = p
    ELSE DANGLING

\* Stores the heap a public method leaves behind and records the call.
Commit(h, op, region, ret, result, newrefs) ==
    LET order == list_from(h.nodes, block.regions)
        gone(p) == IF renamed(order, p) = DANGLING THEN NULL ELSE renamed(order, p)
    IN
    /\ nodes' = [n \in NodeIds |->
                   IF n <= Len(order)
                   THEN [h.nodes[order[n]] EXCEPT
                           !.prev_ptr = renamed(order, @),
                           !.next_ptr = renamed(order, @)]
                   ELSE NoRegion]
    /\ block' = [block EXCEPT !.reserved = h.reserved]
    /\ allocated_region_memory' = h.mem
    /\ refs' = [n \in NodeIds |-> IF n <= Len(order) THEN newrefs[order[n]] ELSE 0]
    /\ last' = [op |-> op, region |-> gone(region),
                ret |-> gone(ret), result |-> result,
                allocs |-> Len(h.allocs), deallocs |-> Len(h.deallocs),
                aborted |-> h.aborted]
    /\ UNCHANGED <<alloc_fails, wgpu_vars, tls_vars, sync_vars>>

Running == block.allocator # NULL /\ ~last.aborted

\* RegionAllocator::reserve up to the call of alloc_block_region: the fast
\* failure, the search and the split.  ret is the region found, or NULL.
reserve_place(h, request) ==
    LET place(block_region) ==
            IF block_region = NULL THEN [h EXCEPT !.ret = NULL]
            ELSE IF can_split(h, block_region, request.size)
            THEN [split_block_region(h, block_region, request.size,
                                     request.alignment)
                    EXCEPT !.ret = block_region]
            ELSE [h EXCEPT !.ret = block_region]
    IN  IF block.size - h.reserved < request.size THEN [h EXCEPT !.ret = NULL]
        ELSE place(find_block_region(h, request))

\* RegionAllocator::reserve as a function of the heap.
reserve(h, request, ok) ==
    LET use(h2, block_region) ==
            IF h2.aborted THEN h2
            ELSE [h2 EXCEPT !.nodes[block_region].usage_count = 1,
                            !.ret = block_region]
        alloc(h1) ==
            IF h1.ret = NULL \/ h1.aborted THEN h1
            ELSE use(alloc_block_region(h1, h1.ret, ok), h1.ret)
    IN  IF request.size = 0 THEN [h EXCEPT !.aborted = TRUE]
        ELSE alloc(reserve_place(h, request))

\* The arena of the model is bounded: a split needs a free entry.
ArenaSuffices(request) ==
    LET fits(r) ==
            (block.size - block.reserved >= request.size /\ r # NULL
               /\ can_split(Heap, r, request.size))
            => arena_reserve(Heap) # NULL
    IN fits(find_block_region(Heap, request))

AllocOutcomes == IF alloc_fails THEN {TRUE, FALSE} ELSE {TRUE}

ReserveOf(request, ok) ==
    LET return(h) ==
            /\ h.ret # NULL => refs[h.ret] < MaxRefs
            /\ Commit(h, "reserve", NULL, h.ret, h.ret # NULL,
                      [n \in NodeIds |->
                         IF n = h.ret THEN refs[n] + 1 ELSE held(h, n)])
    IN  /\ Running
        /\ request.size > 0
        /\ ArenaSuffices(request)
        /\ return(reserve(Heap, request, ok))

Reserve == \E request \in Requests, ok \in AllocOutcomes : ReserveOf(request, ok)

decrement(h, r) ==
    IF h.nodes[r].usage_count > 0
    THEN [h EXCEPT !.nodes[r].usage_count = @ - 1]
    ELSE h

release_frees(h, r) ==
    free_block_region(release_block_region(decrement(h, r), r), r)

\* RegionAllocator::release(user_context, memory_region)
release(h, r) ==
    IF r = NULL THEN [h EXCEPT !.aborted = TRUE]
    ELSE IF h.nodes[r].block_ptr # ThisBlock THEN [h EXCEPT !.aborted = TRUE]
    ELSE release_block_region(decrement(h, r), r)

ReleaseOf(r) ==
    LET return(h) ==
            Commit(h, "release", r, NULL, TRUE,
                   [n \in NodeIds |-> IF n = r THEN refs[n] - 1 ELSE held(h, n)])
    IN  /\ Running
        /\ refs[r] > 0
        /\ return(release(Heap, r))

Release == \E r \in NodeIds : ReleaseOf(r)

\* RegionAllocator::reclaim(user_context, memory_region)
reclaim_any_block(h, r) ==
    LET merge(h3) ==
            IF can_coalesce(h3, r) THEN coalesce_block_regions(h3, r) ELSE h3
    IN  IF r = NULL THEN [h EXCEPT !.aborted = TRUE]
        ELSE merge(free_block_region(release_block_region(decrement(h, r), r), r))

reclaim(h, r) ==
    LET merge(h3) ==
            IF can_coalesce(h3, r) THEN coalesce_block_regions(h3, r) ELSE h3
    IN  IF r = NULL THEN [h EXCEPT !.aborted = TRUE]
        ELSE IF h.nodes[r].block_ptr # ThisBlock THEN [h EXCEPT !.aborted = TRUE]
        ELSE merge(free_block_region(release_block_region(decrement(h, r), r), r))

ReclaimOf(r) ==
    LET return(h) ==
            Commit(h, "reclaim", r, h.ret, TRUE,
                   [n \in NodeIds |->
                      IF n = r /\ h.nodes[n].live THEN refs[n] - 1 ELSE held(h, n)])
    IN  /\ Running
        /\ refs[r] > 0
        /\ return(reclaim(Heap, r))

Reclaim == \E r \in NodeIds : ReclaimOf(r)

retain_forgets(h, r) == h

\* RegionAllocator::retain(user_context, memory_region)
retain(h, r) ==
    IF r = NULL THEN [h EXCEPT !.aborted = TRUE]
    ELSE IF h.nodes[r].block_ptr # ThisBlock THEN [h EXCEPT !.aborted = TRUE]
    ELSE [h EXCEPT !.nodes[r].usage_count = @ + 1]

RetainOf(r) ==
    /\ Running
    /\ refs[r] > 0
    /\ refs[r] < MaxRefs
    /\ Commit(retain(Heap, r), "retain", r, NULL, TRUE, [refs EXCEPT ![r] = @ + 1])

Retain == \E r \in NodeIds : RetainOf(r)

\* RegionAllocator::collect(user_context)
collect_silent(h) == [collect_from(h, block.regions, FALSE) EXCEPT !.ret = FALSE]

collect(h) == collect_from(h, block.regions, FALSE)

Collect ==
    LET return(h) ==
            Commit(h, "collect", NULL, NULL, h.ret, [n \in NodeIds |-> held(h, n)])
    IN  /\ Running
        /\ return(collect(Heap))

\* RegionAllocator::release(user_context): release all regions
release_all(h) == release_from(h, block.regions)

ReleaseAll ==
    /\ Running
    /\ Commit(release_all(Heap), "release_all", NULL, NULL, TRUE, refs)

\* RegionAllocator::destroy(user_context)
Destroy ==
    LET return(h) ==
            /\ nodes' = h.nodes
            /\ block' = [block EXCEPT !.reserved = 0, !.regions = NULL,
                                      !.allocator = NULL]
            /\ allocated_region_memory' = h.mem
            /\ refs' = [n \in NodeIds |-> 0]
            /\ last' = [op |-> "destroy", region |-> NULL, ret |-> NULL,
                        result |-> TRUE, allocs |-> Len(h.allocs),
                        deallocs |-> Len(h.deallocs), aborted |-> FALSE]
            /\ UNCHANGED <<alloc_fails, wgpu_vars, tls_vars, sync_vars>>
    IN  /\ Running
        /\ return(destroy_from(Heap, block.regions))

----------------------------------------------------------------------------
(* The global WebGPU context of src/runtime/webgpu.cpp *)

Threads == 1..MaxThreads

\* What the adapter and device requests of one context creation report
\* through their callbacks.
RequestOutcomes == {"adapter_failed", "device_failed", "device"}

\* A thread outside any call, with no context object.
NoContext ==
    [pc |-> "idle", create |-> TRUE, error_code |-> "success", device |-> NULL]

\* The static initialisers of the globals.
WgpuInitial ==
    /\ context_lock = FALSE
    /\ global_device = NULL
    /\ init_error_code = "success"
    /\ threads = [t \in Threads |-> NoContext]

\* request_adapter_callback and request_device_callback: a failure of either
\* request sets init_error_code, a device is stored in global_device.
request_adapter_callback(g, outcome) ==
    IF outcome = "device" THEN [g EXCEPT !.device = 1]
    ELSE [g EXCEPT !.code = "generic_error"]

\* create_webgpu_context: requests adapter and device, waits until there is
\* a device or an error, and returns init_error_code.
create_webgpu_context(g, outcome) ==
    LET return(g1) == [g1 EXCEPT !.status = g1.code]
    IN return(request_adapter_callback(g, outcome))

\* halide_webgpu_acquire_context after it has taken the lock.
acquire_context(g, create, outcome) ==
    LET finish(g1) ==
            IF g1.status # "success" THEN [g1 EXCEPT !.lock = FALSE]
            ELSE [g1 EXCEPT !.device_ret = g1.device]
    IN  IF create /\ g.device = NULL
        THEN finish(create_webgpu_context(g, outcome))
        ELSE finish(g)

Globals ==
    [lock |-> context_lock, device |-> global_device, code |-> init_error_code,
     status |-> "success", device_ret |-> NULL]

\* while (__atomic_test_and_set(&context_lock, __ATOMIC_ACQUIRE)) {}: the
\* thread gets past the loop when it finds the lock clear.  create is true in
\* the constructor of WgpuContext and false in halide_webgpu_device_release.
TestAndSet(t, create) ==
    /\ threads[t].pc = "idle"
    /\ ~context_lock
    /\ context_lock' = TRUE
    /\ threads' = [threads EXCEPT ![t] = [NoContext EXCEPT !.pc = "acquire",
                                                           !.create = create]]
    /\ UNCHANGED <<global_device, init_error_code, alloc_vars, tls_vars, sync_vars>>

\* The rest of halide_webgpu_acquire_context, up to its return.
AcquireReturn(t, outcome) ==
    LET return(g) ==
            /\ context_lock' = g.lock
            /\ global_device' = g.device
            /\ init_error_code' = g.code
            /\ threads' = [threads EXCEPT ![t].pc = "returned",
                                          ![t].error_code = g.status,
                                          ![t].device = g.device_ret]
    IN  /\ threads[t].pc = "acquire"
        /\ return(acquire_context(Globals, threads[t].create, outcome))
        /\ UNCHANGED <<alloc_vars, tls_vars, sync_vars>>

\* ~WgpuContext: halide_webgpu_release_context, whatever error_code is.
ContextDestructor(t) ==
    /\ threads[t].pc = "returned"
    /\ threads[t].create
    /\ context_lock' = FALSE
    /\ threads' = [threads EXCEPT ![t] = NoContext]
    /\ UNCHANGED <<global_device, init_error_code, alloc_vars, tls_vars, sync_vars>>

\* halide_webgpu_device_release after its acquire (create = false).
DeviceRelease(t) ==
    /\ threads[t].pc = "returned"
    /\ ~threads[t].create
    /\ global_device' = IF threads[t].device # NULL
                           /\ threads[t].device = global_device
                        THEN NULL ELSE global_device
    /\ context_lock' = FALSE
    /\ threads' = [threads EXCEPT ![t] = NoContext]
    /\ UNCHANGED <<init_error_code, alloc_vars, tls_vars, sync_vars>>

NextWgpu ==
    \/ \E t \in Threads, create \in BOOLEAN : TestAndSet(t, create)
    \/ \E t \in Threads, outcome \in RequestOutcomes : AcquireReturn(t, outcome)
    \/ \E t \in Threads : ContextDestructor(t)
    \/ \E t \in Threads : DeviceRelease(t)

----------------------------------------------------------------------------
(* The context keys of src/runtime/tls_halide_context.cpp *)

\* Indices of keys_in_use[] and of tls_context_info.values[].
KeyIndices == 0..(halide_context_key_count - 1)

\* Key arguments of the callers: null, every key of the table and the two
\* values beyond it.
Keys == 0..(halide_context_key_count + 2)

\* The threads whose thread-local values are kept, and the values they store.
TlsThreads == {1, 2}
ContextValues == {NULL, 1}

\* The zero initialisers of keys_in_use and of the thread-local info.
TlsInitial ==
    /\ keys_in_use = [i \in KeyIndices |-> 0]
    /\ tls_values = [t \in TlsThreads |-> [i \in KeyIndices |-> NULL]]
    /\ issued = {}
    /\ tls_last = [op |-> "none", key |-> NULL, ret |-> NULL, code |-> "success",
                   keys_at |-> {}, values_at |-> {}]

\* keys_in_use[index]: an index past the table reads whatever lies beyond it.
key_in_use_at(keys, index, beyond) ==
    IF index \in KeyIndices THEN keys[index] ELSE beyond

\* A variant of halide_context_allocate_key that returns the first free slot
\* without marking it.
allocate_key_unmarked(keys) ==
    LET free == {i \in KeyIndices : keys[i] = 0}
    IN  IF free = {} THEN [keys |-> keys, ret |-> NULL]
        ELSE LET i == CHOOSE j \in free : \A k \in free : j <= k
             IN [keys |-> keys, ret |-> i + 1]

\* halide_context_allocate_key: the first slot that is not in use, marked.
allocate_key(keys) ==
    LET free == {i \in KeyIndices : keys[i] = 0}
    IN  IF free = {} THEN [keys |-> keys, ret |-> NULL]
        ELSE LET i == CHOOSE j \in free : \A k \in free : j <= k
             IN [keys |-> [keys EXCEPT ![i] = 1], ret |-> i + 1]

\* halide_context_free_key.
free_key(keys, key) ==
    LET index == key - 1
    IN  IF index >= 0 /\ index < halide_context_key_count /\ keys[index] # 0
        THEN [keys |-> [keys EXCEPT ![index] = 0], code |-> "success"]
        ELSE [keys |-> keys, code |-> "generic_error"]

\* halide_context_get_value on the calling thread's values.  keys_at and
\* values_at are the indices at which the call accesses the two tables;
\* beyond and junk are what the memory past the tables holds.
get_value(keys, values, key, beyond, junk) ==
    LET index == key - 1
        in_range == index >= 0 /\ index <= halide_context_key_count
        in_use == in_range /\ key_in_use_at(keys, index, beyond) # 0
    IN  [ret |-> IF ~in_use THEN NULL
                 ELSE IF index \in KeyIndices THEN values[index] ELSE junk,
         keys_at |-> IF in_range THEN {index} ELSE {},
         values_at |-> IF in_use THEN {index} ELSE {}]

\* halide_context_set_value on the calling thread's values.
set_value(keys, values, key, value, beyond) ==
    LET index == key - 1
        in_range == index >= 0 /\ index <= halide_context_key_count
        in_use == in_range /\ key_in_use_at(keys, index, beyond) # 0
    IN  [values |-> IF in_use /\ index \in KeyIndices
                    THEN [values EXCEPT ![index] = value] ELSE values,
         code |-> IF in_use THEN "success" ELSE "generic_error",
         keys_at |-> IF in_range THEN {index} ELSE {},
         values_at |-> IF in_use THEN {index} ELSE {}]

AllocateKey ==
    LET return(r) ==
            /\ keys_in_use' = r.keys
            /\ issued' = IF r.ret # NULL THEN issued \cup {r.ret} ELSE issued
            /\ tls_last' = [op |-> "allocate_key", key |-> NULL, ret |-> r.ret,
                            code |-> "success", keys_at |-> {}, values_at |-> {}]
    IN  /\ return(allocate_key(keys_in_use))
        /\ UNCHANGED <<tls_values, alloc_vars, wgpu_vars, sync_vars>>

FreeKey(key) ==
    LET return(r) ==
            /\ keys_in_use' = r.keys
            /\ issued' = IF r.code = "success" THEN issued \ {key} ELSE issued
            /\ tls_last' = [op |-> "free_key", key |-> key, ret |-> NULL,
                            code |-> r.code, keys_at |-> {}, values_at |-> {}]
    IN  /\ return(free_key(keys_in_use, key))
        /\ UNCHANGED <<tls_values, alloc_vars, wgpu_vars, sync_vars>>

GetValue(t, key, beyond, junk) ==
    LET return(r) ==
            tls_last' = [op |-> "get_value", key |-> key, ret |-> r.ret,
                         code |-> "success", keys_at |-> r.keys_at,
                         values_at |-> r.values_at]
    IN  /\ return(get_value(keys_in_use, tls_values[t], key, beyond, junk))
        /\ UNCHANGED <<keys_in_use, tls_values, issued, alloc_vars, wgpu_vars, sync_vars>>

SetValue(t, key, value, beyond) ==
    LET return(r) ==
            /\ tls_values' = [tls_values EXCEPT ![t] = r.values]
            /\ tls_last' = [op |-> "set_value", key |-> key, ret |-> NULL,
                            code |-> r.code, keys_at |-> r.keys_at,
                            values_at |-> r.values_at]
    IN  /\ return(set_value(keys_in_use, tls_values[t], key, value, beyond))
        /\ UNCHANGED <<keys_in_use, issued, alloc_vars, wgpu_vars, sync_vars>>

\* Threads that allocate and free keys and read and write their values.
NextTls ==
    \/ AllocateKey
    \/ \E key \in Keys : FreeKey(key)
    \/ \E t \in TlsThreads, key \in Keys, beyond \in {0, 1}, junk \in ContextValues :
          GetValue(t, key, beyond, junk)
    \/ \E t \in TlsThreads, key \in Keys, value \in ContextValues, beyond \in {0, 1} :
          SetValue(t, key, value, beyond)

----------------------------------------------------------------------------
(* ErrorScope and halide_webgpu_device_sync of src/runtime/webgpu.cpp *)

\* WGPUErrorType values an error callback is called with.
ErrorTypes == {"NoError", "Validation", "OutOfMemory", "Unknown"}

\* WGPUQueueWorkDoneStatus values the work-done callback is called with.
WorkDoneStatuses == {"Success", "Error"}

\* No ErrorScope object.  pushed and popped count the error scopes the object
\* pushed on and popped off the device, pending the error callbacks it has
\* registered that have not fired, ran those that have; reported tells
\* whether one of them was called with an error; waits counts the calls of
\* wait() by the owner, wait_ret is what the last of them returned.
NoScope ==
    [state |-> "none", pc |-> "idle", callbacks_remaining |-> 0,
     error_code |-> "unset", pushed |-> 0, popped |-> 0, pending |-> 0,
     ran |-> 0, reported |-> FALSE, waits |-> 0, wait_ret |-> "none"]

\* No call of halide_webgpu_device_sync.  complete and status are the fields
\* of the stack-local WorkDoneResult; work_pending tells whether the
\* work-done callback of this call is registered and has not fired; stale
\* counts work-done callbacks of calls that have returned; releases counts
\* the times the call cleared context_lock; dead_writes tells whether a
\* callback wrote to the WorkDoneResult of a call that had returned.
NoSync ==
    [pc |-> "idle", complete |-> FALSE, status |-> "unset",
     work_pending |-> FALSE, stale |-> 0, ret |-> "none", releases |-> 0,
     calls |-> 0, dead_writes |-> FALSE]

SyncInitial ==
    /\ scope = NoScope
    /\ sync = NoSync

\* ErrorScope::ErrorScope: two error scopes pushed, two callbacks to come.
ErrorScope_ctor ==
    [NoScope EXCEPT !.state = "live", !.pushed = 2, !.callbacks_remaining = 2]

\* ErrorScope::wait up to its loop: with no callbacks outstanding it returns
\* an internal error at once, otherwise it pops both scopes and starts to
\* wait; pc tells who called it.
wait(s, pc) ==
    IF s.callbacks_remaining = 0
    THEN [s EXCEPT !.wait_ret = "internal_error"]
    ELSE [s EXCEPT !.error_code = "success", !.popped = @ + 2,
                   !.pending = @ + 2, !.pc = pc, !.wait_ret = "none"]

\* A variant of ErrorScope::error_callback in which NoError stores success.
error_callback_overwrites(s, type) ==
    [s EXCEPT !.error_code = IF type = "NoError" THEN "success"
                             ELSE IF type = "OutOfMemory" THEN "out_of_memory"
                             ELSE "generic_error",
              !.reported = @ \/ type \in {"Validation", "OutOfMemory"},
              !.callbacks_remaining = @ - 1,
              !.pending = @ - 1,
              !.ran = @ + 1]

\* ErrorScope::error_callback.
error_callback(s, type) ==
    [s EXCEPT !.error_code = IF type = "NoError" THEN @
                             ELSE IF type = "OutOfMemory" THEN "out_of_memory"
                             ELSE "generic_error",
              !.reported = @ \/ type \in {"Validation", "OutOfMemory"},
              !.callbacks_remaining = @ - 1,
              !.pending = @ - 1,
              !.ran = @ + 1]

\* The end of ErrorScope::wait, once its loop has seen callbacks_remaining
\* at 0.
wait_return(s) == [s EXCEPT !.pc = "idle", !.wait_ret = s.error_code]

\* No call of halide_webgpu_device_sync is in progress.
NoSyncCall == sync.pc \in {"idle", "returned"}

\* A new ErrorScope object, in place of none or of a destroyed one.
ScopeConstruct ==
    /\ scope.state \in {"none", "destroyed"}
    /\ NoSyncCall
    /\ scope' = ErrorScope_ctor
    /\ UNCHANGED <<sync, alloc_vars, wgpu_vars, tls_vars>>

\* The owner of the scope calls wait().
ScopeWait ==
    /\ scope.state = "live" /\ scope.pc = "idle"
    /\ NoSyncCall
    /\ scope.waits < MaxWaits
    /\ scope' = wait([scope EXCEPT !.waits = @ + 1], "wait")
    /\ UNCHANGED <<sync, alloc_vars, wgpu_vars, tls_vars>>

\* The device fires one of the error callbacks registered by the pops, from
\* wgpuDevicePopErrorScope itself or from a wgpuDeviceTick of the loop.
ErrorCallback(type) ==
    /\ scope.pending > 0
    /\ scope' = error_callback(scope, type)
    /\ UNCHANGED <<sync, alloc_vars, wgpu_vars, tls_vars>>

\* wait() called by the owner leaves its loop and returns.
ScopeWaitReturn ==
    /\ scope.pc = "wait"
    /\ NoSyncCall
    /\ scope.callbacks_remaining = 0
    /\ scope' = wait_return(scope)
    /\ UNCHANGED <<sync, alloc_vars, wgpu_vars, tls_vars>>

\* ErrorScope::~ErrorScope: waits if callbacks are outstanding.
ScopeDestruct ==
    /\ scope.state = "live" /\ scope.pc = "idle"
    /\ NoSyncCall
    /\ scope' = IF scope.callbacks_remaining > 0
                THEN [wait(scope, "destructor") EXCEPT !.wait_ret = scope.wait_ret]
                ELSE [scope EXCEPT !.state = "destroyed"]
    /\ UNCHANGED <<sync, alloc_vars, wgpu_vars, tls_vars>>

\* wait() called by the destructor returns and the destructor ends.
ScopeDestructReturn ==
    /\ scope.pc = "destructor"
    /\ scope.callbacks_remaining = 0
    /\ scope' = [scope EXCEPT !.pc = "idle", !.state = "destroyed"]
    /\ UNCHANGED <<sync, alloc_vars, wgpu_vars, tls_vars>>

\* ~WgpuContext at a return of halide_webgpu_device_sync: the context is
\* released whatever its error_code; the frame of the call is gone, and a
\* work-done callback that has not fired is left with the device.
SyncReturn(f, ret) ==
    /\ context_lock' = FALSE
    /\ sync' = [f EXCEPT !.pc = "returned", !.ret = ret, !.releases = @ + 1,
                         !.stale = IF f.work_pending THEN @ + 1 ELSE @]

\* WgpuContext context(user_context): the lock is taken and
\* halide_webgpu_acquire_context runs to its return.
SyncAcquire(outcome) ==
    LET frame == [NoSync EXCEPT !.stale = sync.stale, !.calls = sync.calls + 1,
                                !.dead_writes = sync.dead_writes]
        return(g) ==
            /\ context_lock' = g.lock
            /\ global_device' = g.device
            /\ init_error_code' = g.code
            /\ sync' = IF g.status # "success"
                       THEN [frame EXCEPT !.pc = "failed", !.ret = g.status,
                                          !.releases = 1]
                       ELSE [frame EXCEPT !.pc = "acquired"]
    IN  /\ sync.pc \in {"idle", "returned"}
        /\ scope.state \in {"none", "destroyed"}
        /\ sync.calls < MaxCalls
        /\ ~context_lock
        /\ return(acquire_context([Globals EXCEPT !.lock = TRUE], TRUE, outcome))
        /\ UNCHANGED <<scope, threads, alloc_vars, tls_vars>>

\* if (context.error_code) return context.error_code;
SyncFailedReturn ==
    /\ sync.pc = "failed"
    /\ SyncReturn(sync, sync.ret)
    /\ UNCHANGED <<scope, global_device, init_error_code, threads,
                   alloc_vars, tls_vars>>

\* The error scope is constructed, result.complete is set, the work-done
\* callback is registered and error_scope.wait() reaches its loop.
SyncSubmit ==
    /\ sync.pc = "acquired"
    /\ scope' = wait([ErrorScope_ctor EXCEPT !.waits = 1], "wait")
    /\ sync' = [sync EXCEPT !.pc = "waiting", !.complete = TRUE,
                            !.work_pending = TRUE]
    /\ UNCHANGED <<wgpu_vars, alloc_vars, tls_vars>>

\* The device fires the work-done callback of the call in progress.
WorkDone(status) ==
    /\ sync.work_pending
    /\ sync.pc \in {"waiting", "spinning"}
    /\ sync' = [sync EXCEPT !.work_pending = FALSE, !.status = status,
                            !.complete = FALSE]
    /\ UNCHANGED <<scope, wgpu_vars, alloc_vars, tls_vars>>

\* The device fires the work-done callback of a call that has returned: it
\* writes through the pointer to the WorkDoneResult of that call.  The write
\* lands in the frame of the call in progress (hit) or elsewhere.
StaleWorkDone(status, hit) ==
    /\ sync.stale > 0
    /\ sync' = IF hit /\ sync.pc \in {"waiting", "spinning"}
               THEN [sync EXCEPT !.stale = @ - 1, !.dead_writes = TRUE,
                                 !.status = status, !.complete = FALSE]
               ELSE [sync EXCEPT !.stale = @ - 1, !.dead_writes = TRUE]
    /\ UNCHANGED <<scope, wgpu_vars, alloc_vars, tls_vars>>

\* error_scope.wait() returns: with an error the function returns it, the
\* destructors of error_scope and context run; otherwise it goes on to wait
\* for result.complete.
SyncWaitReturn ==
    LET continue(s) ==
            /\ scope' = IF s.wait_ret # "success"
                        THEN [s EXCEPT !.state = "destroyed"] ELSE s
            /\ IF s.wait_ret # "success"
               THEN SyncReturn(sync, s.wait_ret)
               ELSE /\ sync' = [sync EXCEPT !.pc = "spinning"]
                    /\ UNCHANGED context_lock
    IN  /\ sync.pc = "waiting"
        /\ scope.pc = "wait"
        /\ scope.callbacks_remaining = 0
        /\ continue(wait_return(scope))
        /\ UNCHANGED <<global_device, init_error_code, threads,
                       alloc_vars, tls_vars>>

\* The test-and-set of the last loop finds result.complete clear: the
\* function returns by result.status and the destructors run.
SyncSpinReturn ==
    /\ sync.pc = "spinning"
    /\ ~sync.complete
    /\ scope' = [scope EXCEPT !.state = "destroyed"]
    /\ SyncReturn([sync EXCEPT !.complete = TRUE],
                  IF sync.status = "Success" THEN "success"
                  ELSE "device_sync_failed")
    /\ UNCHANGED <<global_device, init_error_code, threads,
                   alloc_vars, tls_vars>>

\* Owners of an ErrorScope of their own and callers of
\* halide_webgpu_device_sync, one after the other.
NextSync ==
    \/ ScopeConstruct
    \/ ScopeWait
    \/ ScopeWaitReturn
    \/ ScopeDestruct
    \/ ScopeDestructReturn
    \/ \E outcome \in RequestOutcomes : SyncAcquire(outcome)
    \/ SyncFailedReturn
    \/ SyncSubmit
    \/ \E type \in ErrorTypes : ErrorCallback(type)
    \/ \E status \in WorkDoneStatuses : WorkDone(status)
    \/ \E status \in WorkDoneStatuses, hit \in BOOLEAN : StaleWorkDone(status, hit)
    \/ SyncWaitReturn
    \/ SyncSpinReturn

----------------------------------------------------------------------------
(* RegionAllocator::create / initialize: one Available region tiling the block *)

initialize(alignment, dedicated, properties, fails) ==
    /\ nodes = [n \in NodeIds |->
                  IF n = 1
                  THEN [NoRegion EXCEPT !.live = TRUE, !.size = BlockSize,
                                        !.block_ptr = ThisBlock,
                                        !.properties = properties,
                                        !.dedicated = dedicated]
                  ELSE NoRegion]
    /\ block = [size |-> BlockSize, reserved |-> 0, regions |-> 1, allocator |-> 1,
                alignment |-> alignment, dedicated |-> dedicated,
                properties |-> properties]
    /\ allocated_region_memory = 0
    /\ refs = [n \in NodeIds |-> 0]
    /\ alloc_fails = fails
    /\ WgpuInitial
    /\ TlsInitial
    /\ SyncInitial
    /\ last = [op |-> "create", region |-> NULL, ret |-> NULL, result |-> TRUE,
               allocs |-> 0, deallocs |-> 0, aborted |-> FALSE]

Init ==
    \E alignment \in BlockAlignments, properties \in BlockProperties :
        initialize(alignment, FALSE, properties, FALSE)

Next ==
    \/ Reserve
    \/ Release
    \/ Reclaim
    \/ Retain
    \/ Collect
    \/ ReleaseAll
    \/ Destroy

Spec == Init /\ [][Next]_vars

\* Callers that pair every reserve with a reclaim and collect in between, on
\* blocks of either alignment.
ReclaimAlignments == {1, 2}

InitReclaim ==
    \E alignment \in ReclaimAlignments, properties \in BlockProperties :
        initialize(alignment, FALSE, properties, FALSE)

NextReclaim ==
    \/ Reserve
    \/ Reclaim
    \/ Collect

SpecReclaim == InitReclaim /\ [][NextReclaim]_vars

\* Callers that cache regions with release, reclaim others and destroy the
\* allocator, on blocks of either alignment.
NextCache ==
    \/ Reserve
    \/ Release
    \/ Reclaim
    \/ Destroy

SpecCache == InitReclaim /\ [][NextCache]_vars

\* Callers that only count references: reserve, retain and release.
NextCount ==
    \/ Reserve
    \/ Retain
    \/ Release

SpecCount == InitReclaim /\ [][NextCount]_vars

\* A backend whose region-allocate callback may fail.
InitAllocFail ==
    \E alignment \in BlockAlignments, properties \in BlockProperties :
        initialize(alignment, FALSE, properties, TRUE)

SpecAllocFail == InitAllocFail /\ [][Next]_vars

\* Blocks that are or are not dedicated, and requests that ask for a
\* dedicated region or not.
DedicatedRequests ==
    [size : RequestSizes, alignment : {1}, properties : {DefaultProperties},
     dedicated : BOOLEAN]

InitDedicated ==
    \E dedicated \in BOOLEAN, alignment \in BlockAlignments,
       properties \in BlockProperties :
        initialize(alignment, dedicated, properties, FALSE)

ReserveDedicated == \E request \in DedicatedRequests : ReserveOf(request, TRUE)

NextDedicated ==
    \/ ReserveDedicated
    \/ Release
    \/ Reclaim
    \/ Collect

SpecDedicated == InitDedicated /\ [][NextDedicated]_vars

\* Threads that use the WebGPU context through WgpuContext objects and
\* halide_webgpu_device_release.
SpecWgpu == Init /\ [][NextWgpu]_vars

SpecTls == Init /\ [][NextTls]_vars

SpecSync == Init /\ [][NextSync]_vars

\* Callers that make programmer errors: requests of size 0 or with an
\* alignment that is no power of two, and region pointers that are null or
\* belong to the allocator of another block.
InvalidRequests ==
    {request \in [size : {0, 1}, alignment : {1, 3},
                  properties : {DefaultProperties}] :
        request.size = 0 \/ ~IsPow2(request.alignment)}

InvalidRegions == {NULL, Foreign}

\* The heap as the allocator sees it when it is handed the foreign region.
MisuseHeap ==
    [Heap EXCEPT !.nodes = [n \in NodeIds \cup {Foreign} |->
                              IF n = Foreign THEN ForeignRegion ELSE nodes[n]]]

ReserveInvalid ==
    \E request \in InvalidRequests :
        LET return(h) ==
                /\ h.ret # NULL => refs[h.ret] < MaxRefs
                /\ Commit(h, "reserve_invalid", NULL, h.ret, h.ret # NULL,
                          [n \in NodeIds |->
                             IF n = h.ret THEN refs[n] + 1 ELSE held(h, n)])
        IN  /\ Running
            /\ ArenaSuffices(request)
            /\ return(reserve(Heap, request, TRUE))

ReleaseInvalid ==
    \E p \in InvalidRegions :
        /\ Running
        /\ Commit(release(MisuseHeap, p), "release_invalid", NULL, NULL, TRUE, refs)

ReclaimInvalid ==
    \E p \in InvalidRegions :
        /\ Running
        /\ Commit(reclaim(MisuseHeap, p), "reclaim_invalid", NULL, NULL, TRUE, refs)

RetainInvalid ==
    \E p \in InvalidRegions :
        /\ Running
        /\ Commit(retain(MisuseHeap, p), "retain_invalid", NULL, NULL, TRUE, refs)

NextMisuse ==
    \/ Reserve
    \/ Release
    \/ Reclaim
    \/ ReserveInvalid
    \/ ReleaseInvalid
    \/ ReclaimInvalid
    \/ RetainInvalid

SpecMisuse == Init /\ [][NextMisuse]_vars

----------------------------------------------------------------------------
(* Properties *)

Alive == block.allocator # NULL

Regions == {n \in NodeIds : nodes[n].live}

InUseStatus == {"InUse", "Dedicated"}

\* The region that precedes n in the list (NULL for the head).
Predecessor(n) ==
    IF \E m \in Regions : nodes[m].next_ptr = n
    THEN CHOOSE m \in Regions : nodes[m].next_ptr = n
    ELSE NULL

RECURSIVE SumInUse(_)
SumInUse(r) ==
    IF r = NULL THEN 0
    ELSE (IF nodes[r].status \in InUseStatus THEN nodes[r].size ELSE 0)
         + SumInUse(nodes[r].next_ptr)

\* C1: the region list tiles the block: the head starts at offset 0, each
\* region ends where its successor starts, offsets strictly ascend, and the
\* last region ends at block.size.
RegionsTileBlock ==
    Alive =>
        /\ nodes[block.regions].offset = 0
        /\ \A n \in Regions :
              IF nodes[n].next_ptr # NULL
              THEN /\ nodes[n].offset + nodes[n].size = nodes[nodes[n].next_ptr].offset
                   /\ nodes[n].offset < nodes[nodes[n].next_ptr].offset
              ELSE nodes[n].offset + nodes[n].size = block.size

\* C2: block.reserved is the sum of the sizes of the InUse and Dedicated
\* regions of the block.
ReservedIsSumInUse == Alive => block.reserved = SumInUse(block.regions)

\* C3: the offset of every region that reserve(req) returns is a multiple of
\* conform_alignment(req.alignment, block alignment).
ReserveOffsetConforms ==
    Running =>
        \A request \in Requests :
            ArenaSuffices(request) =>
                LET conforms(h) ==
                        h.ret # NULL =>
                            h.nodes[h.ret].offset
                              % conform_alignment(request.alignment,
                                                  block.alignment) = 0
                IN conforms(reserve(Heap, request, TRUE))

\* C4: when every reserved region has been reclaimed and collect has run, the
\* list is one Available region at offset 0 of size block.size.
CollectRestoresBlock ==
    (last.op = "collect" /\ \A n \in NodeIds : refs[n] = 0) =>
        /\ Regions = {block.regions}
        /\ nodes[block.regions].status = "Available"
        /\ nodes[block.regions].offset = 0
        /\ nodes[block.regions].size = block.size

\* C5: after the reclaim of a region whose list neighbours are in use, a
\* reserve of the same size (with an alignment the old offset conforms to)
\* returns a region at the offset the reclaimed region had.
NeighboursInUse(r) ==
    /\ nodes[r].next_ptr # NULL => nodes[nodes[r].next_ptr].status \in InUseStatus
    /\ Predecessor(r) # NULL => nodes[Predecessor(r)].status \in InUseStatus
    /\ nodes[r].next_ptr # NULL \/ Predecessor(r) # NULL

ReclaimedSlotIsReused ==
    [][\A r \in NodeIds :
         (ReclaimOf(r) /\ nodes[r].usage_count = 1 /\ NeighboursInUse(r)) =>
             \A a \in Alignments :
                 nodes[r].offset % conform_alignment(a, block.alignment) = 0 =>
                     LET reused(h) ==
                             h.ret # NULL /\ h.nodes[h.ret].offset = nodes[r].offset
                     IN reused(reserve(Heap', [size |-> nodes[r].size,
                                               alignment |-> a,
                                               properties |-> DefaultProperties],
                                       TRUE))
    ]_vars

\* C6: a region with usage_count > 0 is InUse or Dedicated and holds a handle.
UsedRegionIsInUse ==
    \A n \in Regions :
        nodes[n].usage_count > 0 =>
            nodes[n].status \in InUseStatus /\ nodes[n].handle # NULL

\* C7: release(region) calls no deallocate callback and leaves every handle,
\* offset and size and the backend byte count as they were; a region whose
\* count drops to 0 becomes Available and keeps its handle.
ReleaseKeepsBackendMemory ==
    [][last'.op = "release" =>
         /\ last'.deallocs = 0
         /\ \A n \in NodeIds :
               /\ nodes'[n].handle = nodes[n].handle
               /\ nodes'[n].offset = nodes[n].offset
               /\ nodes'[n].size = nodes[n].size
         /\ allocated_region_memory' = allocated_region_memory
         /\ nodes[last'.region].usage_count = 1 =>
               /\ nodes'[last'.region].status = "Available"
               /\ nodes'[last'.region].usage_count = 0
    ]_vars

ReleasedRegionCached ==
    /\ last.op = "release"
    /\ last.deallocs = 0
    /\ nodes[last.region].status = "Available"
    /\ nodes[last.region].usage_count = 0
    /\ nodes[last.region].handle # NULL
    /\ allocated_region_memory >= nodes[last.region].size
    /\ nodes[last.region].size > 0

\* C8: a reserve that finds an Available region with a handle and of exactly
\* the requested size keeps that handle without calling the allocate
\* callback and returns the region InUse or Dedicated with usage_count 1; the
\* allocate callback runs only for a region whose handle is null when
\* alloc_block_region is reached.
ReserveReusesHandle ==
    Running =>
        \A request \in Requests :
            ArenaSuffices(request) =>
                LET reuses(r, placed, h) ==
                        /\ (r # NULL /\ block.size - block.reserved >= request.size
                              /\ nodes[r].handle # NULL
                              /\ nodes[r].size = request.size) =>
                            /\ h.ret = r
                            /\ h.allocs = <<>>
                            /\ h.nodes[r].handle = nodes[r].handle
                            /\ h.nodes[r].status \in InUseStatus
                            /\ h.nodes[r].usage_count = 1
                        /\ h.allocs # <<>> =>
                            /\ placed.ret # NULL
                            /\ placed.nodes[placed.ret].handle = NULL
                            /\ h.allocs = <<<<placed.ret, request.size>>>>
                IN reuses(find_block_region(Heap, request),
                          reserve_place(Heap, request),
                          reserve(Heap, request, TRUE))

HandleReused ==
    /\ last.op = "reserve"
    /\ last.ret # NULL
    /\ last.allocs = 0
    /\ nodes[last.ret].handle # NULL
    /\ nodes[last.ret].status \in InUseStatus
    /\ nodes[last.ret].usage_count = 1

\* C9: reclaim(region) changes usage_count, status and block.reserved as
\* release(region) does: a count that stays above 0 leaves the region InUse
\* or Dedicated, a count that reaches 0 makes it Available and takes its
\* size off block.reserved.
ReclaimCountsAsRelease ==
    [][\A r \in NodeIds :
         ReclaimOf(r) =>
             LET same(rel) ==
                     /\ block'.reserved = rel.reserved
                     /\ IF rel.nodes[r].usage_count > 0
                        THEN /\ last'.region # NULL
                             /\ nodes'[last'.region].usage_count
                                  = rel.nodes[r].usage_count
                             /\ nodes'[last'.region].status = rel.nodes[r].status
                             /\ nodes'[last'.region].status \in InUseStatus
                        ELSE last'.region # NULL =>
                             /\ nodes'[last'.region].usage_count = 0
                             /\ nodes'[last'.region].status = "Available"
             IN same(release(Heap, r))
    ]_vars

\* C10: reclaim of a region with usage_count 1 calls the deallocate callback
\* exactly once for that region, with the size its allocate call was given,
\* leaves its handle null, and lowers the backend byte count by that size.
DeallocsOf(h, r) == SelectSeq(h.deallocs, LAMBDA e : e[1] = r)

ReclaimFreesOnce ==
    [][\A r \in NodeIds :
         (ReclaimOf(r) /\ nodes[r].usage_count = 1) =>
             LET once(calls) ==
                     /\ Len(calls) = 1
                     /\ calls[1][2] = calls[1][3]
                     /\ last'.region # NULL => nodes'[last'.region].handle = NULL
                     /\ allocated_region_memory'
                          = allocated_region_memory - nodes[r].size
             IN once(DeallocsOf(reclaim(Heap, r), r))
    ]_vars

\* C11: destroy calls the deallocate callback for every region that still
\* holds backend memory, each time with the size its allocate call was given,
\* so that no backend region bytes remain; it gives every arena entry back
\* and leaves block.regions null and block.reserved 0.
DestroyFreesEverything ==
    /\ Running =>
          LET freed(h) ==
                  /\ h.mem = 0
                  /\ \A i \in 1..Len(h.deallocs) :
                        h.deallocs[i][2] = h.deallocs[i][3]
                  /\ \A n \in NodeIds : ~h.nodes[n].live
          IN freed(destroy_from(Heap, block.regions))
    /\ last.op = "destroy" =>
          /\ allocated_region_memory = 0
          /\ block.regions = NULL
          /\ block.reserved = 0

\* C12: once every region that reserve returned has been reclaimed once
\* (callers that only reserve, reclaim and collect hold no region),
\* block.reserved is 0 and no backend region bytes remain allocated.
AllReclaimedFreesAll ==
    (Alive /\ \A n \in NodeIds : refs[n] = 0) =>
        /\ block.reserved = 0
        /\ allocated_region_memory = 0

LastRegionReclaimed ==
    /\ last.op = "reclaim"
    /\ last.deallocs > 0
    /\ \A n \in NodeIds : refs[n] = 0
    /\ block.reserved = 0
    /\ allocated_region_memory = 0

AdjacentAvailable(ns, n) ==
    /\ ns[n].live
    /\ ns[n].next_ptr # NULL
    /\ ns[n].status = "Available"
    /\ ns[ns[n].next_ptr].status = "Available"

\* C14: after a reclaim followed by collect() no two list-adjacent regions
\* are both Available.
CollectLeavesNoAdjacentAvailable ==
    [][(last.op = "reclaim" /\ last'.op = "collect") =>
         \A n \in NodeIds : ~AdjacentAvailable(nodes', n)
    ]_vars

\* C15: between two public calls no two list-adjacent regions are both
\* Available with both handles null.
NoAdjacentFree ==
    Alive =>
        \A n \in NodeIds :
            ~(/\ AdjacentAvailable(nodes, n)
              /\ nodes[n].handle = NULL
              /\ nodes[nodes[n].next_ptr].handle = NULL)

\* C16: a reserve whose region-allocate call fails (the handle stays null)
\* returns null: a region that reserve returned after calling allocate holds
\* a handle.
AllocFailureReturnsNull ==
    (last.op = "reserve" /\ last.allocs > 0 /\ last.ret # NULL) =>
        nodes[last.ret].handle # NULL

\* C17: reserve is all-or-nothing: when it returns null (too little room or
\* no fitting region) the region list and block.reserved are as before, and
\* a region it returns is InUse or Dedicated with a handle attached.
ReserveAllOrNothing ==
    Running =>
        \A request \in Requests, ok \in AllocOutcomes :
            ArenaSuffices(request) =>
                LET whole(h) ==
                        /\ (block.size - block.reserved < request.size
                              \/ find_block_region(Heap, request) = NULL) =>
                                /\ h.ret = NULL
                                /\ h.nodes = nodes
                                /\ h.reserved = block.reserved
                                /\ h.allocs = <<>> /\ h.deallocs = <<>>
                        /\ h.ret = NULL =>
                                h.nodes = nodes /\ h.reserved = block.reserved
                        /\ h.ret # NULL =>
                                /\ h.nodes[h.ret].status \in InUseStatus
                                /\ h.nodes[h.ret].handle # NULL
                IN whole(reserve(Heap, request, ok))

\* The requesting value is Default or equals the holder's value, on each axis.
Compatible(requested, holder) ==
    /\ requested.visibility = 0 \/ requested.visibility = holder.visibility
    /\ requested.caching = 0 \/ requested.caching = holder.caching
    /\ requested.usage = 0 \/ requested.usage = holder.usage

ReleaseAllMakesAllAvailable ==
    [][last'.op = "release_all" =>
         /\ \A n \in NodeIds : nodes'[n].live => nodes'[n].status = "Available"
         /\ block'.reserved = 0
         /\ last'.deallocs = 0
         /\ allocated_region_memory' = allocated_region_memory
    ]_vars

\* C21: release, reclaim and retain given a null region or a region of
\* another block abort, and have written no usage_count, status, handle or
\* block.reserved and called no callback when they do.
InvalidRegionAborts ==
    Running =>
        \A p \in InvalidRegions :
            LET stops(h) ==
                    /\ h.aborted
                    /\ h.nodes = MisuseHeap.nodes
                    /\ h.reserved = block.reserved
                    /\ h.mem = allocated_region_memory
                    /\ h.allocs = <<>> /\ h.deallocs = <<>>
            IN  /\ stops(release(MisuseHeap, p))
                /\ stops(reclaim(MisuseHeap, p))
                /\ stops(retain(MisuseHeap, p))

\* A reclaim of an invalid region aborted while the caller held a region.
InvalidReclaimAborted ==
    /\ last.op = "reclaim_invalid" /\ last.aborted
    /\ \E n \in Regions : refs[n] > 0 /\ nodes[n].usage_count > 0
    /\ block.reserved > 0

\* C22: reserve aborts on a request of size 0 or with an alignment that is no
\* power of two, and places no region.
InvalidRequestAborts ==
    Running =>
        \A request \in InvalidRequests :
            ArenaSuffices(request) =>
                LET stops(h) == /\ h.aborted
                                /\ h.nodes = nodes
                                /\ h.reserved = block.reserved
                IN stops(reserve(Heap, request, TRUE))

\* C23: collect() returns true exactly when it merged list-adjacent regions,
\* so that the list got shorter; when no region has an Available neighbour
\* it returns false and leaves the list as it was.
CollectReportsCoalesce ==
    Running =>
        LET reports(h) ==
                /\ h.ret <=> Cardinality({n \in NodeIds : h.nodes[n].live})
                               < Cardinality(Regions)
                /\ (\A n \in NodeIds : ~AdjacentAvailable(nodes, n)) =>
                      /\ h.ret = FALSE
                      /\ h.nodes = nodes
                      /\ h.reserved = block.reserved
                      /\ h.allocs = <<>> /\ h.deallocs = <<>>
        IN reports(collect(Heap))

\* A collect merged everything into one region and said so.
CollectMerged ==
    /\ last.op = "collect" /\ last.result
    /\ Cardinality(Regions) = 1
    /\ nodes[block.regions].status = "Available"

\* C26: between two public calls the region list is doubly linked: the
\* head has no predecessor and every successor points back.
ListDoublyLinked ==
    Alive =>
        /\ nodes[block.regions].prev_ptr = NULL
        /\ \A n \in Regions :
              nodes[n].next_ptr # NULL => nodes[nodes[n].next_ptr].prev_ptr = n

\* C27: the split that reserve makes of region R (size S) for a request of
\* size s leaves R at its offset with size s and creates behind it an
\* Available region E with no handle, usage_count 0, R's properties and
\* dedicated flag, offset round_up(R.offset + s, a) and size
\* S - (round_up(R.offset + s, a) - R.offset), a being the larger of the
\* request's and the block's alignment, both powers of two; backend memory
\* that R held is deallocated with size S.
SplitShapesRegions ==
    Running =>
        \A request \in Requests :
            LET a == IF request.alignment > block.alignment
                     THEN request.alignment ELSE block.alignment
                up(x) == ((x + a - 1) \div a) * a
                shaped(R, h) ==
                    /\ ~h.aborted
                    /\ h.nodes[R].offset = nodes[R].offset
                    /\ h.nodes[R].size = request.size
                    /\ h.nodes[R].next_ptr = h.ret
                    /\ h.nodes[R].handle = NULL
                    /\ h.ret # NULL /\ ~nodes[h.ret].live
                    /\ h.nodes[h.ret].live
                    /\ h.nodes[h.ret].status = "Available"
                    /\ h.nodes[h.ret].handle = NULL
                    /\ h.nodes[h.ret].usage_count = 0
                    /\ h.nodes[h.ret].properties = nodes[R].properties
                    /\ h.nodes[h.ret].dedicated = nodes[R].dedicated
                    /\ h.nodes[h.ret].offset = up(nodes[R].offset + request.size)
                    /\ h.nodes[h.ret].size =
                          nodes[R].size
                            - (up(nodes[R].offset + request.size) - nodes[R].offset)
                    /\ h.nodes[h.ret].next_ptr = nodes[R].next_ptr
                    /\ h.deallocs = IF nodes[R].handle # NULL
                                    THEN <<(<<R, nodes[R].size, nodes[R].alloc_size>>)>>
                                    ELSE <<>>
                    /\ h.allocs = <<>>
                    /\ h.reserved = block.reserved
                    /\ \A n \in NodeIds \ {R, h.ret, nodes[R].next_ptr} :
                          h.nodes[n] = nodes[n]
                splits(R) ==
                    (/\ block.size - block.reserved >= request.size
                     /\ R # NULL
                     /\ can_split(Heap, R, request.size)
                     /\ arena_reserve(Heap) # NULL)
                        => shaped(R, split_block_region(Heap, R, request.size,
                                                        request.alignment))
            IN splits(find_block_region(Heap, request))

\* A reserve split a region that still held cached backend memory.
SplitFreedCachedRegion ==
    /\ last.op = "reserve" /\ last.ret # NULL
    /\ last.deallocs = 1 /\ last.allocs = 1
    /\ nodes[last.ret].next_ptr # NULL
    /\ nodes[nodes[last.ret].next_ptr].status = "Available"

\* Whether region n can take the request: Available with usage_count 0,
\* compatible, large enough for the request and for its aligned size, which
\* also fits the free space of the block.
Takes(n, request) ==
    LET a == conform_alignment(request.alignment, block.alignment)
        effective == aligned_size(nodes[n].offset, request.size, a)
    IN  /\ nodes[n].status = "Available" /\ nodes[n].usage_count = 0
        /\ Compatible(request.properties, nodes[n].properties)
        /\ nodes[n].size >= request.size
        /\ effective <= nodes[n].size
        /\ effective <= block.size - block.reserved

StatusStep(h, n, r, gives) ==
    LET from == nodes[n].status
        to == h.nodes[n].status
    IN  (nodes[n].live /\ h.nodes[n].live /\ from # to) =>
            \/ /\ from = "Available" /\ to \in InUseStatus
               /\ gives /\ n = r
               /\ nodes[n].usage_count = 0 /\ h.nodes[n].usage_count = 1
            \/ /\ from \in InUseStatus /\ to = "Available"
               /\ ~gives /\ n = r
               /\ nodes[n].usage_count = 1 /\ h.nodes[n].usage_count = 0

\* C29: a region's status changes only from Available to InUse or Dedicated
\* in the reserve that returns it (usage_count 0 -> 1) and from InUse or
\* Dedicated to Available in the release or reclaim that takes its count to
\* 0 or in a release-all, never between InUse and Dedicated, and the
\* assertion of alloc_block_region never fails.
StatusChangesAreLegal ==
    Running =>
        /\ \A request \in Requests, ok \in AllocOutcomes :
              ArenaSuffices(request) =>
                  LET legal(h) == /\ ~h.aborted
                                  /\ \A n \in NodeIds : StatusStep(h, n, h.ret, TRUE)
                  IN legal(reserve(Heap, request, ok))
        /\ \A r \in NodeIds :
              refs[r] > 0 =>
                  LET legal(h) == /\ ~h.aborted
                                  /\ \A n \in NodeIds : StatusStep(h, n, r, FALSE)
                  IN legal(release(Heap, r)) /\ legal(reclaim(Heap, r))
        /\ LET legal(h) ==
                  \A n \in NodeIds :
                      (nodes[n].live /\ h.nodes[n].live) =>
                          \/ h.nodes[n].status = nodes[n].status
                          \/ h.nodes[n].status = "Available"
           IN legal(release_all(Heap)) /\ legal(collect(Heap))

\* C30: the region reserve returns is Dedicated exactly when the request
\* asks for a dedicated region, and InUse otherwise.
DedicatedFollowsRequest ==
    Running =>
        \A request \in DedicatedRequests :
            ArenaSuffices(request) =>
                LET marked(h) ==
                        h.ret # NULL =>
                            h.nodes[h.ret].status =
                                IF request.dedicated THEN "Dedicated" ELSE "InUse"
                IN marked(reserve(Heap, request, TRUE))

\* Thread t has a WgpuContext whose acquire succeeded and which is not yet
\* destroyed.
HoldsContext(t) ==
    /\ threads[t].pc = "returned"
    /\ threads[t].create
    /\ threads[t].error_code = "success"

\* C24: at most one thread is between a successful
\* halide_webgpu_acquire_context and its release.
ContextMutualExclusion ==
    \A t1, t2 \in Threads :
        (HoldsContext(t1) /\ HoldsContext(t2)) => t1 = t2

\* C25: halide_webgpu_acquire_context with create = true returns either an
\* error with the context lock not held, or success with a non-null device
\* and the lock held.
AcquireReturnsLockedOrError ==
    [][\A t \in Threads :
         (threads[t].pc = "acquire" /\ threads[t].create
            /\ threads'[t].pc = "returned") =>
             \/ /\ threads'[t].error_code # "success"
                /\ ~context_lock'
             \/ /\ threads'[t].error_code = "success"
                /\ threads'[t].device # NULL
                /\ context_lock'
    ]_vars

\* C31: the region list of a dedicated block is always one region that
\* covers the whole block.
DedicatedBlockIsOneRegion ==
    (Alive /\ block.dedicated) =>
        /\ Regions = {block.regions}
        /\ nodes[block.regions].offset = 0
        /\ nodes[block.regions].size = block.size

\* C32: reserve, release, retain, release-all and collect never call the
\* region-deallocate callback.
OnlyReclaimAndDestroyFree ==
    [][last'.op \in {"reserve", "release", "retain", "release_all", "collect"} =>
         /\ last'.deallocs = 0
         /\ allocated_region_memory' >= allocated_region_memory
    ]_vars

\* Regions n and m are both handed out: returned by reserve and still InUse
\* or Dedicated with a positive usage count.
HandedOut(n) ==
    /\ nodes[n].live
    /\ refs[n] > 0
    /\ nodes[n].status \in InUseStatus
    /\ nodes[n].usage_count > 0

\* C33: two regions that are handed out at the same time occupy disjoint
\* byte ranges [offset, offset + size) of the block.
HandedOutRegionsDisjoint ==
    Alive =>
        \A n, m \in NodeIds :
            (n # m /\ HandedOut(n) /\ HandedOut(m)) =>
                \/ nodes[n].offset + nodes[n].size <= nodes[m].offset
                \/ nodes[m].offset + nodes[m].size <= nodes[n].offset

\* C34: block.reserved stays within 0..block.size: no release subtracts more
\* than is reserved and no reserve adds beyond the size of the block.
ReservedWithinBlock ==
    /\ block.reserved >= 0
    /\ block.reserved <= block.size
    /\ Running =>
          \A r \in NodeIds :
              (nodes[r].live /\ nodes[r].status # "Available") =>
                  block.reserved >= nodes[r].size

\* A reserve filled the block to its last byte.
ReservedReachesBlockSize ==
    /\ last.op = "reserve" /\ last.ret # NULL
    /\ block.reserved = block.size
    /\ \A n \in Regions : nodes[n].status \in InUseStatus

\* C35: between two public calls every region of the list has a size
\* greater than 0.
RegionSizesPositive ==
    Alive => \A n \in Regions : nodes[n].size > 0

\* C36: a key returned by allocate_key is not among the keys that are
\* allocated and not yet freed; allocate_key returns null only when every
\* key of the table is in use; free_key of a key that is out of range or not
\* allocated returns an error and leaves the table unchanged.
AllocatedKeysDistinct ==
    /\ LET fresh(r) ==
               /\ r.ret # NULL => r.ret \notin issued
               /\ r.ret = NULL => issued = {i + 1 : i \in KeyIndices}
       IN fresh(allocate_key(keys_in_use))
    /\ \A key \in Keys :
           LET refused(r) == r.code = "generic_error" /\ r.keys = keys_in_use
           IN key \notin issued => refused(free_key(keys_in_use, key))

\* Every key of the table is allocated and the last allocate_key returned
\* null.
KeyTableExhausted ==
    /\ tls_last.op = "allocate_key" /\ tls_last.ret = NULL
    /\ issued = {i + 1 : i \in KeyIndices}

\* C37: get_value and set_value access keys_in_use[] and
\* tls_context_info.values[] only at indices of the tables; a key out of
\* range yields null or an error.
TlsAccessesInBounds ==
    tls_last.op \in {"get_value", "set_value"} =>
        /\ tls_last.keys_at \subseteq KeyIndices
        /\ tls_last.values_at \subseteq KeyIndices
        /\ (tls_last.key - 1) \notin KeyIndices =>
               /\ tls_last.ret = NULL
               /\ tls_last.op = "set_value" => tls_last.code = "generic_error"

\* C38: a key that allocate_key has just returned reads as null through
\* get_value in every thread.
FreshKeyReadsNull ==
    (tls_last.op = "allocate_key" /\ tls_last.ret # NULL) =>
        \A t \in TlsThreads :
            get_value(keys_in_use, tls_values[t], tls_last.ret, 0, NULL).ret = NULL

\* C39: an ErrorScope pops the two error scopes it pushed exactly once over
\* its lifetime, in wait() or else in its destructor; wait() returns only
\* after both error callbacks have run; a second wait() pops nothing and
\* returns an internal error; wait() returns a code other than success when
\* a callback reported a validation or out-of-memory error.
ErrorScopePopsOnce ==
    /\ scope.popped \in {0, scope.pushed}
    /\ scope.state = "destroyed" => (scope.pushed = 2 /\ scope.popped = 2)
    /\ (scope.waits >= 1 /\ scope.pc = "idle") =>
           /\ scope.callbacks_remaining = 0 /\ scope.ran = 2
           /\ scope.wait_ret # "none"
    /\ (scope.waits = 1 /\ scope.pc = "idle" /\ scope.reported) =>
           scope.wait_ret \in {"generic_error", "out_of_memory"}
    /\ (scope.state = "live" /\ scope.waits >= 1 /\ scope.pc = "idle") =>
           LET second(s) == /\ s.popped = scope.popped
                            /\ s.pending = 0
                            /\ s.wait_ret = "internal_error"
           IN second(wait(scope, "wait"))
    /\ (scope.waits >= 2 /\ scope.pc = "idle") =>
           scope.wait_ret = "internal_error"

\* A scope was waited for twice and destroyed; its first callback reported
\* an error and its second one none.
ScopeWaitedTwice ==
    /\ scope.state = "destroyed"
    /\ scope.waits = 2
    /\ scope.reported
    /\ scope.error_code # "success"

\* C40: halide_webgpu_device_sync returns only after the work-done callback
\* it registered has fired, and by then it has released the context lock
\* exactly once.
SyncReturnsAfterWorkDone ==
    sync.pc = "returned" =>
        /\ ~sync.work_pending
        /\ sync.releases = 1
====
